---------------------------- MODULE Spec2Model ----------------------------
(***************************************************************************)
(* A model of the B-tree of src/src/main.rs: Entry, Node (new, traverse,   *)
(* search, binary_search_keys, insert_non_full, split_nodes) and BTree     *)
(* (new, traverse, search, search_linear, insert).                         *)
(*                                                                         *)
(* Rust slot arrays (Box<[Option<_>]>) are sequences of options; the Rust  *)
(* index i is the sequence index i + 1 (Get/Put).  An option is None == <<>>*)
(* or Some(x) == <<x>>.  A panic (index out of bounds, unwrap of None,     *)
(* usize underflow, the explicit panic! of BTree::new) is an outcome of    *)
(* the operation: every mutating operator returns a record with a panic    *)
(* flag and the object as the panic left it.                               *)
(***************************************************************************)
EXTENDS Integers, Sequences, FiniteSets, Bags, TLC

\* ------------------------------------------------------------------ bounds
\* Keys are 1..MaxKey (K: Ord is only ever compared).
MaxKey == 6
\* At most MaxInserts calls of BTree::insert in a run.
MaxInserts == 7
\* BTree::new is tried with every degree in 0..MaxT.
MaxT == 3
\* The binary-probe threshold of Node::search (512 in the code) ranges over
\* 0..MaxProbe in the search claims, so that nodes above and below it occur.
MaxProbe == 3

Keys == 1..MaxKey
\* P: Copy is opaque to the tree (stored and returned, never inspected).  The
\* scripted scenario draws each payload from Payloads.
Payloads == {"p", "q"}
Degrees == 0..MaxT
Probes == 0..MaxProbe

VARIABLES
    root,       \* BTree.root: None or Some(node)
    t,          \* BTree.t
    status,     \* "unbuilt" before BTree::new, "ok", or "panic"
    inserted,   \* ghost: the bag of <<key, value>> pairs of the completed inserts
    last        \* ghost: the last operation, its argument (the degree or the
                \* key) and the insert_non_full calls it made

vars == <<root, t, status, inserted, last>>

\* ----------------------------------------------------------------- options
None == <<>>
Some(x) == <<x>>
is_none(o) == o = None
is_some(o) == o # None
unwrap(o) == o[1]

\* Slot arrays, indexed from 0 as in the code.
InBounds(a, i) == i >= 0 /\ i < Len(a)
Get(a, i) == a[i + 1]
Put(a, i, x) == [a EXCEPT ![i + 1] = x]

\* ------------------------------------------------------------------- Entry
Entry_new(key, value) == [key |-> key, value |-> value]
get_key(e) == e.key

\* -------------------------------------------------------------------- Node
\* Node::new: 2t child slots and 2t-1 key slots, all None, n = 0.
Node_new(deg, leaf) ==
    [t |-> deg, n |-> 0, leaf |-> leaf,
     keys |-> [j \in 1..(2 * deg - 1) |-> None],
     child |-> [j \in 1..(2 * deg) |-> None]]

\* A slot that holds Some(_) at a valid index: what keys[i].as_ref().unwrap()
\* and child[i].as_ref().unwrap() need in order not to panic.
Readable(a, i) == InBounds(a, i) /\ is_some(Get(a, i))

\* The loop "while j >= lo { a[j + 1] = a[j].take(); j -= 1; }" of
\* Node::split_nodes (children from j = n, keys from j = n - 1).  The right-hand
\* side is evaluated first, so a store out of bounds panics after the take.
RECURSIVE ShiftRight(_, _, _)
ShiftRight(a, j, lo) ==
    IF j < lo THEN [panic |-> FALSE, a |-> a]
    ELSE IF ~InBounds(a, j) THEN [panic |-> TRUE, a |-> a]
    ELSE IF ~InBounds(a, j + 1) THEN [panic |-> TRUE, a |-> Put(a, j, None)]
    ELSE ShiftRight(Put(Put(a, j + 1, Get(a, j)), j, None), j - 1, lo)

\* The move loop of Node::split_nodes with a plain copy instead of take(): the
\* source slots stay occupied.
RECURSIVE MoveUpper_Copy(_, _, _, _, _)
MoveUpper_Copy(dst, src, j, cnt, off) ==
    IF j >= cnt THEN [panic |-> FALSE, dst |-> dst, src |-> src]
    ELSE IF ~InBounds(src, j + off) THEN [panic |-> TRUE, dst |-> dst, src |-> src]
    ELSE IF ~InBounds(dst, j) THEN [panic |-> TRUE, dst |-> dst, src |-> src]
    ELSE MoveUpper_Copy(Put(dst, j, Get(src, j + off)), src, j + 1, cnt, off)

\* The loop "while j < cnt { dst[j] = src[j + off].take(); j += 1; }" of
\* Node::split_nodes (keys with cnt = t - 1, children with cnt = t; off = t).
RECURSIVE MoveUpper(_, _, _, _, _)
MoveUpper(dst, src, j, cnt, off) ==
    IF j >= cnt THEN [panic |-> FALSE, dst |-> dst, src |-> src]
    ELSE IF ~InBounds(src, j + off) THEN [panic |-> TRUE, dst |-> dst, src |-> src]
    ELSE IF ~InBounds(dst, j)
         THEN [panic |-> TRUE, dst |-> dst, src |-> Put(src, j + off, None)]
    ELSE MoveUpper(Put(dst, j, Get(src, j + off)), Put(src, j + off, None),
                   j + 1, cnt, off)

\* The end of Node::split_nodes without line 211 ("self.n += 1").
SplitKeys_NoCount(s2, pos, c, sk) ==
    IF sk.panic \/ ~InBounds(sk.a, pos)
    THEN [panic |-> TRUE, self |-> [s2 EXCEPT !.keys = sk.a]]
    ELSE [panic |-> FALSE, self |-> [s2 EXCEPT !.keys = Put(sk.a, pos, c)]]

\* Node::split_nodes, lines 196-211: with y already cut down in place, shift
\* this node's children and keys right of pos, put z at child[pos + 1] and the
\* promoted entry c at keys[pos].
SplitKeys(s2, pos, c, sk) ==
    IF sk.panic \/ ~InBounds(sk.a, pos)
    THEN [panic |-> TRUE, self |-> [s2 EXCEPT !.keys = sk.a]]
    ELSE [panic |-> FALSE,
          self |-> [s2 EXCEPT !.keys = Put(sk.a, pos, c), !.n = s2.n + 1]]
SplitChildren(s1, pos, c, z, sc) ==
    IF sc.panic \/ ~InBounds(sc.a, pos + 1)
    THEN [panic |-> TRUE, self |-> [s1 EXCEPT !.child = sc.a]]
    ELSE SplitKeys([s1 EXCEPT !.child = Put(sc.a, pos + 1, Some(z))], pos, c,
                   ShiftRight(s1.keys, s1.n - 1, pos))
\* Node::split_nodes without the loop of lines 196-200 that shifts the children
\* right of pos: z then overwrites child[pos + 1].
SplitParent_NoShift(s1, pos, c, z) ==
    SplitChildren(s1, pos, c, z, [panic |-> FALSE, a |-> s1.child])

SplitParent(s1, pos, c, z) ==
    SplitChildren(s1, pos, c, z, ShiftRight(s1.child, s1.n, pos + 1))

\* Node::split_nodes, lines 193-194: y.n = t - 1 and c = y.keys[t - 1].take(),
\* y being child[child_index] of self and z the new node, both after the moves.
SplitMedian(self, pos, child_index, y1, z) ==
    IF ~InBounds(y1.keys, self.t - 1)
    THEN [panic |-> TRUE,
          self |-> [self EXCEPT !.child = Put(self.child, child_index,
                                               Some([y1 EXCEPT !.n = self.t - 1]))]]
    ELSE SplitParent(
            [self EXCEPT !.child =
                Put(self.child, child_index,
                    Some([y1 EXCEPT !.n = self.t - 1,
                                    !.keys = Put(y1.keys, self.t - 1, None)]))],
            pos, Get(y1.keys, self.t - 1), z)

\* Node::split_nodes, lines 184-191: if y is internal, its upper t children
\* move to z.  mk is the outcome of the move of the keys.
SplitMoveChildren(self, pos, child_index, y0, z0, mk, mc) ==
    IF mk.panic \/ mc.panic
    THEN [panic |-> TRUE,
          self |-> [self EXCEPT !.child =
                      Put(self.child, child_index,
                          Some([y0 EXCEPT !.keys = mk.src, !.child = mc.src]))]]
    ELSE SplitMedian(self, pos, child_index,
                     [y0 EXCEPT !.keys = mk.src, !.child = mc.src],
                     [z0 EXCEPT !.keys = mk.dst, !.child = mc.dst])

\* Node::split_nodes, lines 177-182: the upper t - 1 keys of y move to z.
SplitMoveKeys(self, pos, child_index, y0, z0, mk) ==
    SplitMoveChildren(self, pos, child_index, y0, z0, mk,
        IF ~y0.leaf /\ ~mk.panic
        THEN MoveUpper(z0.child, y0.child, 0, self.t, self.t)
        ELSE [panic |-> FALSE, dst |-> z0.child, src |-> y0.child])

\* Node::split_nodes, lines 173-175: z = Node::new(self.t, y.leaf), z.n = y.t - 1.
SplitChild(self, pos, child_index, y0, z0) ==
    SplitMoveKeys(self, pos, child_index, y0, z0,
                  MoveUpper(z0.keys, y0.keys, 0, self.t - 1, self.t))

\* Node::split_nodes with z always created as a leaf (line 174 without y.leaf).
split_nodes_LeafZ(self, pos, child_index) ==
    IF ~Readable(self.child, child_index) THEN [panic |-> TRUE, self |-> self]
    ELSE SplitChild(self, pos, child_index,
                    unwrap(Get(self.child, child_index)),
                    [Node_new(self.t, TRUE)
                        EXCEPT !.n = unwrap(Get(self.child, child_index)).t - 1])

\* Node::split_nodes(pos, child_index).  Returns [panic, self].
split_nodes(self, pos, child_index) ==
    IF ~Readable(self.child, child_index) THEN [panic |-> TRUE, self |-> self]
    ELSE SplitChild(self, pos, child_index,
                    unwrap(Get(self.child, child_index)),
                    [Node_new(self.t, unwrap(Get(self.child, child_index)).leaf)
                        EXCEPT !.n = unwrap(Get(self.child, child_index)).t - 1])

\* "self.n - 1" on usize with n = 0 (line 140) panics when the build checks
\* arithmetic overflow (the dev and test profiles) and wraps to usize::MAX,
\* which "as isize" turns into -1, when it does not (the release profile).
OverflowChecks == TRUE

\* The leaf loop with its comparison turned around (keys[i] < key).
RECURSIVE LeafShift_Flipped(_, _, _)
LeafShift_Flipped(keys, i, key) ==
    IF i < 0 THEN [panic |-> FALSE, keys |-> keys, i |-> i]
    ELSE IF ~Readable(keys, i) THEN [panic |-> TRUE, keys |-> keys, i |-> i]
    ELSE IF ~(get_key(unwrap(Get(keys, i))) < key)
         THEN [panic |-> FALSE, keys |-> keys, i |-> i]
    ELSE IF ~InBounds(keys, i + 1)
         THEN [panic |-> TRUE, keys |-> Put(keys, i, None), i |-> i]
    ELSE LeafShift_Flipped(Put(Put(keys, i + 1, Get(keys, i)), i, None), i - 1, key)

\* The leaf loop of Node::insert_non_full (lines 144-147):
\* "while i >= 0 && keys[i].unwrap().key > key { keys[i+1] = keys[i].take(); i -= 1; }"
RECURSIVE LeafShift(_, _, _)
LeafShift(keys, i, key) ==
    IF i < 0 THEN [panic |-> FALSE, keys |-> keys, i |-> i]
    ELSE IF ~Readable(keys, i) THEN [panic |-> TRUE, keys |-> keys, i |-> i]
    ELSE IF ~(get_key(unwrap(Get(keys, i))) > key)
         THEN [panic |-> FALSE, keys |-> keys, i |-> i]
    ELSE IF ~InBounds(keys, i + 1)
         THEN [panic |-> TRUE, keys |-> Put(keys, i, None), i |-> i]
    ELSE LeafShift(Put(Put(keys, i + 1, Get(keys, i)), i, None), i - 1, key)

\* The internal loop of Node::insert_non_full (lines 152-154):
\* "while i >= 0 && keys[i].unwrap().key > key { i -= 1; }"
RECURSIVE ScanDown(_, _, _)
ScanDown(keys, i, key) ==
    IF i < 0 THEN [panic |-> FALSE, i |-> i]
    ELSE IF ~Readable(keys, i) THEN [panic |-> TRUE, i |-> i]
    ELSE IF ~(get_key(unwrap(Get(keys, i))) > key) THEN [panic |-> FALSE, i |-> i]
    ELSE ScanDown(keys, i - 1, key)

\* Ghost record of one call of Node::insert_non_full: n and leaf at entry, the
\* descent index i the scan found, whether child[i+1] was split, the key the
\* split promoted into slot i+1 (0: none), and the child slot the call descended
\* into (-1: none, a leaf or a panic before the descent); for a call that split
\* a child, also the node as it was at entry, before the split.
CallRec(self, i, split, promoted, next) ==
    [n |-> self.n, leaf |-> self.leaf, i |-> i, split |-> split,
     promoted |-> promoted, next |-> next,
     entry |-> IF split THEN Some(self) ELSE None]

\* Lines 159-161: after the split, "if keys[i as usize].key < key { i += 1 }".
\* i = -1 cast to usize is out of bounds.
Recompare(keys, i, key) ==
    IF ~Readable(keys, i) THEN [panic |-> TRUE, i |-> i]
    ELSE [panic |-> FALSE,
          i |-> IF get_key(unwrap(Get(keys, i))) < key THEN i + 1 ELSE i]

\* Node::insert_non_full(key, pointer).  Returns [panic, self, calls]: calls is
\* the ghost sequence of CallRecs of this call and the calls below it.
RECURSIVE insert_non_full(_, _, _)

\* The leaf branch with a test for an equal key added: an entry with the same
\* key is overwritten instead of a new one being stored.
InsertLeaf_Overwrite(self, key, pointer, ls) ==
    IF ls.panic \/ ~InBounds(ls.keys, ls.i + 1)
    THEN [panic |-> TRUE, self |-> [self EXCEPT !.keys = ls.keys],
          calls |-> <<CallRec(self, ls.i, FALSE, 0, -1)>>]
    ELSE IF Readable(ls.keys, ls.i) /\ get_key(unwrap(Get(ls.keys, ls.i))) = key
    THEN [panic |-> FALSE,
          self |-> [self EXCEPT
                      !.keys = Put(ls.keys, ls.i, Some(Entry_new(key, pointer)))],
          calls |-> <<CallRec(self, ls.i, FALSE, 0, -1)>>]
    ELSE [panic |-> FALSE,
          self |-> [self EXCEPT
                      !.keys = Put(ls.keys, ls.i + 1, Some(Entry_new(key, pointer))),
                      !.n = self.n + 1],
          calls |-> <<CallRec(self, ls.i, FALSE, 0, -1)>>]

\* Lines 149-150, after the leaf loop ls: keys[i + 1] = Some(entry), n += 1.
InsertLeaf(self, key, pointer, ls) ==
    IF ls.panic \/ ~InBounds(ls.keys, ls.i + 1)
    THEN [panic |-> TRUE, self |-> [self EXCEPT !.keys = ls.keys],
          calls |-> <<CallRec(self, ls.i, FALSE, 0, -1)>>]
    ELSE [panic |-> FALSE,
          self |-> [self EXCEPT
                      !.keys = Put(ls.keys, ls.i + 1, Some(Entry_new(key, pointer))),
                      !.n = self.n + 1],
          calls |-> <<CallRec(self, ls.i, FALSE, 0, -1)>>]

\* Lines 163-166: the recursive call r on child[next] of s, this node after the
\* split if there was one; rec is the ghost record of this call.
InsertBelow(s, next, rec, r) ==
    [panic |-> r.panic,
     self |-> [s EXCEPT !.child = Put(s.child, next, Some(r.self))],
     calls |-> <<rec>> \o r.calls]

\* Lines 159-166: rc is the outcome of the comparison after the split (or the
\* index i itself when there was no split).
InsertDescend(self, s, key, pointer, i, full, promoted, rc) ==
    IF rc.panic \/ ~Readable(s.child, rc.i + 1)
    THEN [panic |-> TRUE, self |-> s,
          calls |-> <<CallRec(self, i, full, promoted, -1)>>]
    ELSE InsertBelow(s, rc.i + 1, CallRec(self, i, full, promoted, rc.i + 1),
                     insert_non_full(unwrap(Get(s.child, rc.i + 1)), key, pointer))

\* Ghost: the key that split_nodes(i + 1, i + 1) put into slot i + 1.
Promoted(s, i) ==
    IF Readable(s.keys, i + 1) THEN get_key(unwrap(Get(s.keys, i + 1))) ELSE 0

\* Lines 156-162: sp is the outcome of the split of the full child[i + 1].
InsertAfterSplit(self, key, pointer, i, full, sp) ==
    IF sp.panic
    THEN [panic |-> TRUE, self |-> sp.self,
          calls |-> <<CallRec(self, i, full, 0, -1)>>]
    ELSE InsertDescend(self, sp.self, key, pointer, i, full,
                       IF full THEN Promoted(sp.self, i) ELSE 0,
                       IF full THEN Recompare(sp.self.keys, i, key)
                       ELSE [panic |-> FALSE, i |-> i])

\* Line 156: "if self.child[i + 1].unwrap().n == 2 * self.t - 1 { split }".
InsertSplit(self, key, pointer, i, full) ==
    InsertAfterSplit(self, key, pointer, i, full,
                     IF full THEN split_nodes(self, i + 1, i + 1)
                     ELSE [panic |-> FALSE, self |-> self])

\* The internal branch without the test of line 156: a full child is not split.
InsertInternal_NoSplit(self, key, pointer, sd) ==
    IF sd.panic \/ ~Readable(self.child, sd.i + 1)
    THEN [panic |-> TRUE, self |-> self,
          calls |-> <<CallRec(self, sd.i, FALSE, 0, -1)>>]
    ELSE InsertSplit(self, key, pointer, sd.i, FALSE)

\* Lines 152-167, after the scan sd.
InsertInternal(self, key, pointer, sd) ==
    IF sd.panic \/ ~Readable(self.child, sd.i + 1)
    THEN [panic |-> TRUE, self |-> self,
          calls |-> <<CallRec(self, sd.i, FALSE, 0, -1)>>]
    ELSE InsertSplit(self, key, pointer, sd.i,
                     unwrap(Get(self.child, sd.i + 1)).n = 2 * self.t - 1)

insert_non_full(self, key, pointer) ==
    IF self.n = 0 /\ OverflowChecks
    THEN [panic |-> TRUE, self |-> self, calls |-> <<CallRec(self, -1, FALSE, 0, -1)>>]
    ELSE IF self.leaf
         THEN InsertLeaf(self, key, pointer, LeafShift(self.keys, self.n - 1, key))
         ELSE InsertInternal(self, key, pointer, ScanDown(self.keys, self.n - 1, key))

\* Node::traverse(t): the node's entries in slots 0..n-1, then, for an internal
\* node, the traversal of child[0..n] in turn.  Returns [panic, out].
RECURSIVE Node_traverse(_, _)
RECURSIVE TraverseKeys(_, _, _)
RECURSIVE TraverseChildren(_, _, _)
\* Mutant of TraverseChildren: the loop of line 85 runs over 0..n instead of
\* 0..n + 1 and misses the last child.
RECURSIVE TraverseChildren_SkipLast(_, _, _)
TraverseChildren_SkipLast(self, i, acc) ==
    IF i >= self.n THEN [panic |-> FALSE, out |-> acc]
    ELSE IF ~Readable(self.child, i) THEN [panic |-> TRUE, out |-> acc]
    ELSE LET r == Node_traverse(unwrap(Get(self.child, i)), acc)
         IN  IF r.panic THEN r ELSE TraverseChildren_SkipLast(self, i + 1, r.out)
\* Mutant of Node_traverse: the in-order traversal (child[0], entry 0,
\* child[1], entry 1, ..., child[n]).
RECURSIVE Node_traverse_InOrder(_, _)
RECURSIVE InOrderFrom(_, _, _)
InOrderFrom(self, i, below) ==
    IF below.panic \/ i >= self.n THEN below
    ELSE IF ~Readable(self.keys, i) THEN [panic |-> TRUE, out |-> below.out]
    ELSE InOrderFrom(self, i + 1,
            IF self.leaf
            THEN [panic |-> FALSE,
                  out |-> Append(below.out, unwrap(Get(self.keys, i)))]
            ELSE IF ~Readable(self.child, i + 1)
                 THEN [panic |-> TRUE, out |-> below.out]
            ELSE Node_traverse_InOrder(unwrap(Get(self.child, i + 1)),
                    Append(below.out, unwrap(Get(self.keys, i)))))
Node_traverse_InOrder(self, acc) ==
    InOrderFrom(self, 0,
        IF self.leaf THEN [panic |-> FALSE, out |-> acc]
        ELSE IF ~Readable(self.child, 0) THEN [panic |-> TRUE, out |-> acc]
        ELSE Node_traverse_InOrder(unwrap(Get(self.child, 0)), acc))

TraverseKeys(self, i, acc) ==
    IF i >= self.n THEN [panic |-> FALSE, out |-> acc]
    ELSE IF ~Readable(self.keys, i) THEN [panic |-> TRUE, out |-> acc]
    ELSE TraverseKeys(self, i + 1, Append(acc, unwrap(Get(self.keys, i))))
TraverseChildren(self, i, acc) ==
    IF i >= self.n + 1 THEN [panic |-> FALSE, out |-> acc]
    ELSE IF ~Readable(self.child, i) THEN [panic |-> TRUE, out |-> acc]
    ELSE LET r == Node_traverse(unwrap(Get(self.child, i)), acc)
         IN  IF r.panic THEN r ELSE TraverseChildren(self, i + 1, r.out)
Node_traverse(self, acc) ==
    LET r == TraverseKeys(self, 0, acc)
    IN  IF r.panic \/ self.leaf THEN r ELSE TraverseChildren(self, 0, r.out)

\* Node::binary_search_keys(key): the index of key in slots 0..n-1, or -1.
\* Returns [panic, l].
RECURSIVE BinaryLoop(_, _, _, _)
BinaryLoop(self, key, low, high) ==
    IF ~(low <= high) THEN [panic |-> FALSE, l |-> -1]
    ELSE LET mid == low + ((high - low) \div 2)
         IN  IF ~Readable(self.keys, mid) THEN [panic |-> TRUE, l |-> -1]
             ELSE IF get_key(unwrap(Get(self.keys, mid))) = key
                  THEN [panic |-> FALSE, l |-> mid]
             ELSE IF key < get_key(unwrap(Get(self.keys, mid)))
                  THEN BinaryLoop(self, key, low, mid - 1)
             ELSE BinaryLoop(self, key, mid + 1, high)
binary_search_keys(self, key) == BinaryLoop(self, key, 0, self.n - 1)

\* The linear scan of Node::search (lines 102-104):
\* "while i < n && keys[i].unwrap().key < key { i += 1; }"
RECURSIVE LinearScan(_, _, _)
LinearScan(self, key, i) ==
    IF ~(i < self.n) THEN [panic |-> FALSE, i |-> i]
    ELSE IF ~Readable(self.keys, i) THEN [panic |-> TRUE, i |-> i]
    ELSE IF ~(get_key(unwrap(Get(self.keys, i))) < key) THEN [panic |-> FALSE, i |-> i]
    ELSE LinearScan(self, key, i + 1)

\* Node::search(key, force_linear).  probe is the threshold the code writes as
\* the literal 512 (line 94).  Returns [panic, found]: found is None or Some(entry).
RECURSIVE Node_search(_, _, _, _)
\* Mutant of SearchFrom: line 107 returns the entry of slot i without
\* comparing its key with the key searched for.
SearchFrom_NoEq(self, key, force_linear, probe, i) ==
    IF self.n > i /\ ~Readable(self.keys, i) THEN [panic |-> TRUE, found |-> None]
    ELSE IF self.n > i THEN [panic |-> FALSE, found |-> Get(self.keys, i)]
    ELSE IF i >= Len(self.child) \/ self.leaf THEN [panic |-> FALSE, found |-> None]
    ELSE IF is_none(Get(self.child, i)) THEN [panic |-> TRUE, found |-> None]
    ELSE Node_search(unwrap(Get(self.child, i)), key, force_linear, probe)
\* Lines 107-115, once the slot i is known.
SearchFrom(self, key, force_linear, probe, i) ==
    IF self.n > i /\ ~Readable(self.keys, i) THEN [panic |-> TRUE, found |-> None]
    ELSE IF self.n > i /\ get_key(unwrap(Get(self.keys, i))) = key
         THEN [panic |-> FALSE, found |-> Get(self.keys, i)]
    ELSE IF i >= Len(self.child) \/ self.leaf THEN [panic |-> FALSE, found |-> None]
    ELSE IF is_none(Get(self.child, i)) THEN [panic |-> TRUE, found |-> None]
    ELSE Node_search(unwrap(Get(self.child, i)), key, force_linear, probe)
Node_search(self, key, force_linear, probe) ==
    IF ~force_linear /\ self.n > probe THEN
        LET b == binary_search_keys(self, key)
        IN  IF b.panic THEN [panic |-> TRUE, found |-> None]
            ELSE IF b.l = -1 THEN Node_search(self, key, TRUE, probe)
            ELSE SearchFrom(self, key, force_linear, probe, b.l)
    ELSE
        LET sc == LinearScan(self, key, 0)
        IN  IF sc.panic THEN [panic |-> TRUE, found |-> None]
            ELSE SearchFrom(self, key, force_linear, probe, sc.i)

\* ------------------------------------------------------------------- BTree
\* Mutant of BTree_new: the check of line 231 reads "t < 1".
BTree_new_OffByOne(deg) ==
    IF deg < 1 THEN [panic |-> TRUE, root |-> None, t |-> 0]
    ELSE [panic |-> FALSE, root |-> None, t |-> deg]

\* BTree::new(t): the panic! for t < 2, else a tree with no root.
BTree_new(deg) ==
    IF deg < 2 THEN [panic |-> TRUE, root |-> None, t |-> 0]
    ELSE [panic |-> FALSE, root |-> None, t |-> deg]

\* Mutant of InsertFirst: line 270, "root.n = 1", is forgotten.
InsertFirst_NoCount(rt, key, pointer, r0) ==
    IF ~InBounds(r0.keys, 0) THEN [panic |-> TRUE, root |-> rt, calls |-> <<>>]
    ELSE [panic |-> FALSE,
          root |-> Some([r0 EXCEPT
                           !.keys = Put(r0.keys, 0, Some(Entry_new(key, pointer)))]),
          calls |-> <<>>]

\* BTree::insert, lines 267-271: the first insert makes a one-entry leaf root.
InsertFirst(rt, key, pointer, r0) ==
    IF ~InBounds(r0.keys, 0) THEN [panic |-> TRUE, root |-> rt, calls |-> <<>>]
    ELSE [panic |-> FALSE,
          root |-> Some([r0 EXCEPT
                           !.keys = Put(r0.keys, 0, Some(Entry_new(key, pointer))),
                           !.n = 1]),
          calls |-> <<>>]

\* BTree::insert, lines 289-295: r is the outcome of insert_non_full on
\* s.child[index].  self.root was taken at line 279 and is set again only at
\* line 295, so a panic in between leaves the tree without a root.
InsertRootChild(s, index, r) ==
    IF r.panic THEN [panic |-> TRUE, root |-> None, calls |-> r.calls]
    ELSE [panic |-> FALSE,
          root |-> Some([s EXCEPT !.child = Put(s.child, index, Some(r.self))]),
          calls |-> r.calls]

\* BTree::insert, lines 285-292: s is the new root after the split.
InsertRootIndex(s, key, pointer, index) ==
    IF ~Readable(s.child, index) THEN [panic |-> TRUE, root |-> None, calls |-> <<>>]
    ELSE InsertRootChild(s, index,
            insert_non_full(unwrap(Get(s.child, index)), key, pointer))

\* Mutant of InsertRootSplit: the comparison of line 286 is turned around, so
\* the key goes to the wrong half of the split root.
InsertRootSplit_Flipped(key, pointer, sp) ==
    IF sp.panic \/ ~Readable(sp.self.keys, 0)
    THEN [panic |-> TRUE, root |-> None, calls |-> <<>>]
    ELSE InsertRootIndex(sp.self, key, pointer,
            IF get_key(unwrap(Get(sp.self.keys, 0))) > key THEN 1 ELSE 0)

\* BTree::insert, lines 282-288: sp is the outcome of s.split_nodes(0, 0).
InsertRootSplit(key, pointer, sp) ==
    IF sp.panic \/ ~Readable(sp.self.keys, 0)
    THEN [panic |-> TRUE, root |-> None, calls |-> <<>>]
    ELSE InsertRootIndex(sp.self, key, pointer,
            IF get_key(unwrap(Get(sp.self.keys, 0))) < key THEN 1 ELSE 0)

\* BTree::insert, lines 276-282: a new internal root s with the old root as
\* child 0, which is then split.
InsertFullRoot(rt, key, pointer, s0) ==
    InsertRootSplit(key, pointer,
                    split_nodes([s0 EXCEPT !.child = Put(s0.child, 0, rt)], 0, 0))

\* BTree::insert, line 298.
InsertRoot(r) == [panic |-> r.panic, root |-> Some(r.self), calls |-> r.calls]

\* BTree::insert with the test of line 274 off by one: it splits a root that
\* holds 2t - 2 entries or more.
BTree_insert_EagerSplit(rt, deg, key, pointer) ==
    IF is_none(rt) THEN InsertFirst(rt, key, pointer, Node_new(deg, TRUE))
    ELSE IF unwrap(rt).n >= 2 * deg - 2
         THEN InsertFullRoot(rt, key, pointer, Node_new(deg, FALSE))
    ELSE InsertRoot(insert_non_full(unwrap(rt), key, pointer))

\* BTree::insert(key, pointer).  Returns [panic, root, calls].
BTree_insert(rt, deg, key, pointer) ==
    IF is_none(rt) THEN InsertFirst(rt, key, pointer, Node_new(deg, TRUE))
    ELSE IF unwrap(rt).n = 2 * deg - 1
         THEN InsertFullRoot(rt, key, pointer, Node_new(deg, FALSE))
    ELSE InsertRoot(insert_non_full(unwrap(rt), key, pointer))

\* BTree::traverse(): None for a tree with no root, else Some(sequence).
BTree_traverse(rt) ==
    IF is_none(rt) THEN [panic |-> FALSE, out |-> None]
    ELSE LET r == Node_traverse(unwrap(rt), <<>>)
         IN  [panic |-> r.panic, out |-> Some(r.out)]

\* BTree::search(key) and BTree::search_linear(key).
BTree_search(rt, key, probe) ==
    IF is_none(rt) THEN [panic |-> FALSE, found |-> None]
    ELSE Node_search(unwrap(rt), key, FALSE, probe)
BTree_search_linear(rt, key, probe) ==
    IF is_none(rt) THEN [panic |-> FALSE, found |-> None]
    ELSE Node_search(unwrap(rt), key, TRUE, probe)

\* ----------------------------------------------------------------- actions
NoOp == [op |-> "none", arg |-> 0, calls |-> <<>>]

\* The payload the caller passes with key: the key and the number of this
\* insert among the inserts of that key.  The tree never inspects a payload, so
\* a run with any other payloads is this run with the payloads renamed; here
\* every stored entry is told apart from every other one.
Ticket(key) ==
    <<key, 1 + Cardinality({p \in BagToSet(inserted) : p[1] = key})>>

Init ==
    /\ root = None
    /\ t = 0
    /\ status = "unbuilt"
    /\ inserted = EmptyBag
    /\ last = NoOp

\* let tree = BTree::new(deg)
New(deg) ==
    /\ status = "unbuilt"
    /\ LET r == BTree_new(deg)
       IN  /\ status' = IF r.panic THEN "panic" ELSE "ok"
           /\ root' = r.root
           /\ t' = r.t
    /\ last' = [op |-> "new", arg |-> deg, calls |-> <<>>]
    /\ UNCHANGED inserted

\* tree.insert(key, pointer)
Insert(key, pointer) ==
    /\ status = "ok"
    /\ LET r == BTree_insert(root, t, key, pointer)
       IN  /\ root' = r.root
           /\ status' = IF r.panic THEN "panic" ELSE "ok"
           /\ inserted' = IF r.panic THEN inserted
                          ELSE inserted (+) SetToBag({<<key, pointer>>})
           /\ last' = [op |-> "insert", arg |-> key, calls |-> r.calls]
    /\ UNCHANGED t

Next ==
    \/ \E deg \in Degrees : New(deg)
    \/ \E key \in Keys :
          BagCardinality(inserted) < MaxInserts /\ Insert(key, Ticket(key))

Spec == Init /\ [][Next]_vars

\* The scenario of spec.md section 8: t = 2 and the keys of Script
\* inserted in order, each with a payload drawn from Payloads.
Script == <<10, 20, 5, 6, 12, 30, 7, 17>>

InitScenario ==
    /\ root = BTree_new(2).root
    /\ t = BTree_new(2).t
    /\ status = "ok"
    /\ inserted = EmptyBag
    /\ last = [op |-> "new", arg |-> 2, calls |-> <<>>]

ScriptInsert(pointer) ==
    /\ BagCardinality(inserted) < Len(Script)
    /\ Insert(Script[BagCardinality(inserted) + 1], pointer)

NextScenario == \E pointer \in Payloads : ScriptInsert(pointer)

SpecScenario == InitScenario /\ [][NextScenario]_vars

\* Deep trees.  main inserts ascending keys (lines 308-310); here a run starts
\* from the tree that BTree::new(2) and the inserts of one sequence of
\* DeepPrefixes build, and goes on with up to MaxDeepInserts inserts of keys of
\* DeepKeys in any order.  The prefixes hold even keys and DeepKeys odd ones.
\* The five trees are: a full internal root over leaves (8 ascending keys), a
\* three-level tree whose last internal child is full (16), a three-level tree
\* whose internal root is full (17), a three-level tree whose middle internal
\* child is full (16 and the five keys of Fill), and a two-level tree whose
\* root and first leaf are both full (LowFull).
MaxDeepKey == 13
MaxDeepInserts == 3
DeepKeys == {28 * i - 13 : i \in 1..MaxDeepKey}
Ascending(n) == [i \in 1..n |-> 20 * i]
Fill == <<142, 144, 146, 148, 150>>
LowFull == <<20, 40, 60, 80, 10, 14, 100, 120, 140, 160>>
DeepPrefixes ==
    {Ascending(8), Ascending(16), Ascending(17), Ascending(16) \o Fill, LowFull}

\* The outcome of BTree::insert for the j-th key of ks after the j - 1 before it.
RECURSIVE Load(_, _, _)
Load(deg, ks, j) ==
    IF j = 0 THEN [panic |-> FALSE, root |-> BTree_new(deg).root, calls |-> <<>>]
    ELSE BTree_insert(Load(deg, ks, j - 1).root, deg, ks[j], <<ks[j], 1>>)

InitDeep ==
    \E ks \in DeepPrefixes :
        /\ root = Load(2, ks, Len(ks)).root
        /\ t = BTree_new(2).t
        /\ status = IF Load(2, ks, Len(ks)).panic THEN "panic" ELSE "ok"
        /\ inserted = SetToBag({<<ks[j], <<ks[j], 1>>>> : j \in 1..Len(ks)})
        /\ last = [op |-> "insert", arg |-> ks[Len(ks)],
                   calls |-> Load(2, ks, Len(ks)).calls]

\* The inserts made after the prefix.
DeepInserted == Cardinality({p \in BagToSet(inserted) : p[1] % 2 = 1})

NextDeep ==
    \E key \in DeepKeys :
        DeepInserted < MaxDeepInserts /\ Insert(key, Ticket(key))

SpecDeep == InitDeep /\ [][NextDeep]_vars

\* ------------------------------------------------------------ observations
InsertedKeys == {p[1] : p \in BagToSet(inserted)}
NumInserted == BagCardinality(inserted)
\* The completed inserts had pairwise distinct keys.
DistinctKeys == Cardinality(InsertedKeys) = NumInserted

NotFound == [panic |-> FALSE, found |-> None]
Found(key, value) == [panic |-> FALSE, found |-> Some(Entry_new(key, value))]

\* The keys stored in the subtree of a node (slots 0..n-1, children 0..n).
RECURSIVE SubtreeKeys(_)
SubtreeKeys(node) ==
    {get_key(unwrap(Get(node.keys, i))) : i \in {j \in 0..(node.n - 1) : Readable(node.keys, j)}}
    \cup (IF node.leaf THEN {}
          ELSE UNION {SubtreeKeys(unwrap(Get(node.child, i))) :
                        i \in {j \in 0..node.n : Readable(node.child, j)}})

\* The nodes of the subtree of a node.
RECURSIVE SubtreeNodes(_)
SubtreeNodes(node) ==
    {node}
    \cup (IF node.leaf THEN {}
          ELSE UNION {SubtreeNodes(unwrap(Get(node.child, i))) :
                        i \in {j \in 0..node.n : Readable(node.child, j)}})

Nodes == IF is_none(root) THEN {} ELSE SubtreeNodes(unwrap(root))
InternalNodes == {nd \in Nodes : ~nd.leaf}

\* Height of the tree: 0 without a root, 1 for a single leaf.
RECURSIVE NodeHeight(_)
NodeHeight(node) ==
    IF node.leaf \/ ~Readable(node.child, 0) THEN 1
    ELSE 1 + NodeHeight(unwrap(Get(node.child, 0)))
Height == IF is_none(root) THEN 0 ELSE NodeHeight(unwrap(root))

\* The keys searched for: every key of the model and one below and one above.
SearchKeys == 0..(MaxKey + 1)

\* ------------------------------------------------------------------ claims

\* C1: after inserts with pairwise distinct keys, BTree::search(k) returns, for
\* each inserted key k, the entry with key k and the value inserted with k.
C1_SearchFindsInserted ==
    (status = "ok" /\ DistinctKeys) =>
        \A p \in BagToSet(inserted) : \A probe \in Probes :
            BTree_search(root, p[1], probe) = Found(p[1], p[2])

\* C2: BTree::insert never panics.
C2_InsertNeverPanics == ~(last.op = "insert" /\ status = "panic")

\* C3: BTree::search(key) returns None for every key that was never inserted,
\* in every tree the inserts reach (the tree without inserts included).
C3_SearchMissesAbsent ==
    status = "ok" =>
        \A k \in SearchKeys \ InsertedKeys : \A probe \in Probes :
            BTree_search(root, k, probe) = NotFound

\* C3 witness: a two-level tree and a key never inserted that lies between two
\* inserted keys, searched for and not found.
C3_Witness ==
    /\ status = "ok" /\ Height = 2
    /\ \E k \in Keys \ InsertedKeys :
          /\ \E a, b \in InsertedKeys : a < k /\ k < b
          /\ BTree_search(root, k, 0) = NotFound

\* C4: after N >= 1 inserts with pairwise distinct keys, BTree::traverse()
\* returns Some sequence of exactly N entries in which every inserted key
\* occurs exactly once.
C4_TraverseAllOnce ==
    (status = "ok" /\ DistinctKeys /\ NumInserted >= 1) =>
        LET r == BTree_traverse(root)
        IN  /\ ~r.panic
            /\ is_some(r.out)
            /\ Len(unwrap(r.out)) = NumInserted
            /\ \A k \in InsertedKeys :
                  Cardinality({i \in 1..Len(unwrap(r.out)) :
                                 get_key(unwrap(r.out)[i]) = k}) = 1

\* C4 witness: a two-level tree of at least six distinct keys, traversed.
C4_Witness ==
    /\ status = "ok" /\ DistinctKeys /\ NumInserted >= 6 /\ Height = 2
    /\ Len(unwrap(BTree_traverse(root).out)) = NumInserted

\* C5: BTree::search and BTree::search_linear return the same result for every
\* key in every tree the inserts reach, whatever the probe threshold.
C5_SearchAgree ==
    status = "ok" =>
        \A k \in SearchKeys : \A probe \in Probes :
            BTree_search(root, k, probe) = BTree_search_linear(root, k, probe)

\* C5 restricted to inserts with pairwise distinct keys.
C5_SearchAgreeDistinct ==
    (status = "ok" /\ DistinctKeys) =>
        \A k \in SearchKeys : \A probe \in Probes :
            BTree_search(root, k, probe) = BTree_search_linear(root, k, probe)

\* The scenario has run to its end.
ScenarioDone == status = "ok" /\ NumInserted = Len(Script)
FoundKey(r, key) == ~r.panic /\ is_some(r.found) /\ get_key(unwrap(r.found)) = key

\* C6 as stated: after the scenario, search(6) returns the entry for 6,
\* search(99) returns None, and the root has exactly one entry.
C6_ScenarioRootOne ==
    ScenarioDone =>
        /\ \A probe \in Probes : FoundKey(BTree_search(root, 6, probe), 6)
        /\ \A probe \in Probes : BTree_search(root, 99, probe) = NotFound
        /\ unwrap(root).n = 1

\* C6 as amended: after the scenario, search(6) returns the entry for 6 with
\* the value it was inserted with, search(99) returns None, and the root has
\* exactly two entries.
C6_ScenarioRootTwo ==
    ScenarioDone =>
        /\ \A probe \in Probes : \E p \in BagToSet(inserted) :
              p[1] = 6 /\ BTree_search(root, 6, probe) = Found(6, p[2])
        /\ \A probe \in Probes : BTree_search(root, 99, probe) = NotFound
        /\ unwrap(root).n = 2

\* C6 witness: the scenario has run to its end and 6 is found.
C6_Witness == ScenarioDone /\ FoundKey(BTree_search(root, 6, 0), 6)

\* C7: as long as no operation panics, the root is None, and traverse()
\* returns None, exactly when no insert has been performed; after the first
\* insert the root is a leaf with n = 1 holding exactly the inserted entry; and
\* an insert that completes never turns a Some root into None.
C7_RootState ==
    status = "ok" =>
        /\ is_none(root) <=> NumInserted = 0
        /\ BTree_traverse(root) = [panic |-> FALSE, out |-> None] <=> NumInserted = 0
        /\ NumInserted = 1 =>
              \E p \in BagToSet(inserted) :
                  /\ unwrap(root).leaf /\ unwrap(root).n = 1
                  /\ Get(unwrap(root).keys, 0) = Some(Entry_new(p[1], p[2]))
                  /\ BTree_traverse(root).out = Some(<<Entry_new(p[1], p[2])>>)
C7_RootStep == (status' = "ok" /\ is_some(root)) => is_some(root')
C7_RootNoneIffEmpty == [](C7_RootState) /\ [][C7_RootStep]_vars

\* C7 witness: the first insert has made the root a one-entry leaf.
C7_Witness ==
    /\ status = "ok" /\ last.op = "insert" /\ NumInserted = 1
    /\ is_some(root) /\ unwrap(root).leaf /\ unwrap(root).n = 1

\* C8: BTree::new(t) panics exactly when t < 2, and then produces no tree; for
\* t >= 2 it returns a tree with root None and the given t.
C8_NewPanicsBelowTwo ==
    last.op = "new" =>
        /\ status = "panic" <=> last.arg < 2
        /\ status = "ok" <=> last.arg >= 2
        /\ status = "panic" => (root = None /\ t = 0)
        /\ status = "ok" => (root = None /\ t = last.arg)

\* C8 witness: BTree::new(1) has panicked.
C8_Witness == last.op = "new" /\ last.arg = 1 /\ status = "panic"

\* C9: after inserts with pairwise distinct keys, in every internal node every
\* key in the subtree of child[i] is less than keys[i] (i < n) and greater than
\* keys[i - 1] (i > 0).
C9_Separators ==
    (status = "ok" /\ DistinctKeys) =>
        \A nd \in InternalNodes : \A i \in 0..nd.n :
            \A k \in SubtreeKeys(unwrap(Get(nd.child, i))) :
                /\ i < nd.n => k < get_key(unwrap(Get(nd.keys, i)))
                /\ i > 0 => k > get_key(unwrap(Get(nd.keys, i - 1)))

\* C10: in every insert_non_full call on an internal node that splits its full
\* child[i + 1], the insertion descends into child[i + 1] when the key is less
\* than the promoted median and into child[i + 2] when it is greater, for every
\* descent index i, -1 included.
C10_DescendBySide ==
    last.op = "insert" =>
        \A j \in 1..Len(last.calls) :
            last.calls[j].split =>
                /\ last.arg < last.calls[j].promoted =>
                      last.calls[j].next = last.calls[j].i + 1
                /\ last.arg > last.calls[j].promoted =>
                      last.calls[j].next = last.calls[j].i + 2

\* The key in slot i of a node.
NodeKey(nd, i) == get_key(unwrap(Get(nd.keys, i)))

\* C11: in every tree reached by inserts with pairwise distinct keys, the
\* entries in slots [0, n) of every node are in strictly ascending key order.
C11_NodeKeysAscending ==
    (status = "ok" /\ DistinctKeys) =>
        \A nd \in Nodes : \A i \in 0..(nd.n - 2) :
            /\ Readable(nd.keys, i) /\ Readable(nd.keys, i + 1)
            /\ NodeKey(nd, i) < NodeKey(nd, i + 1)

\* C11 witness: a tree of distinct keys with more than one level in which a
\* node holds three entries and the last insert put a key below a larger one.
C11_Witness ==
    /\ status = "ok" /\ DistinctKeys /\ Height >= 2
    /\ \E nd \in Nodes :
          /\ nd.n >= 3
          /\ \E i \in 0..(nd.n - 2) :
                Readable(nd.keys, i) /\ NodeKey(nd, i) = last.arg

\* The nodes other than the root, and the number of occupied child slots.
NonRootNodes == Nodes \ {unwrap(root)}
NumChildren(nd) == Cardinality({j \in 0..(Len(nd.child) - 1) : is_some(Get(nd.child, j))})

\* C12: after any sequence of inserts every non-root node holds between t - 1
\* and 2t - 1 entries, the root holds between 1 and 2t - 1 entries, and every
\* internal node has exactly n + 1 children.
C12_Occupancy ==
    (status = "ok" /\ NumInserted >= 1) =>
        /\ is_some(root)
        /\ 1 <= unwrap(root).n /\ unwrap(root).n <= 2 * t - 1
        /\ \A nd \in NonRootNodes : t - 1 <= nd.n /\ nd.n <= 2 * t - 1
        /\ \A nd \in InternalNodes : NumChildren(nd) = nd.n + 1

\* C12 witness: a tree whose root is internal and whose last insert split a
\* child, so that a non-root node holds exactly t - 1 entries.
C12_Witness ==
    /\ status = "ok" /\ Height >= 2
    /\ \E j \in 1..Len(last.calls) : last.calls[j].split
    /\ \E nd \in NonRootNodes : nd.n = t - 1
    /\ \E nd \in InternalNodes : NumChildren(nd) >= 3

\* The depths (root = 1) at which the leaves of the subtree of a node lie.
RECURSIVE LeafDepths(_, _)
LeafDepths(node, d) ==
    IF node.leaf THEN {d}
    ELSE UNION {LeafDepths(unwrap(Get(node.child, i)), d + 1) :
                  i \in {j \in 0..node.n : Readable(node.child, j)}}

\* C13: after any sequence of inserts all leaves are at the same distance from
\* the root, and a node has leaf = true exactly when it has no children.
C13_LeafDepth ==
    (status = "ok" /\ NumInserted >= 1) =>
        /\ Cardinality(LeafDepths(unwrap(root), 1)) = 1
        /\ \A nd \in Nodes : nd.leaf <=> (NumChildren(nd) = 0)

\* C13 witness: a three-level tree whose last insert split an internal node.
C13_Witness ==
    /\ status = "ok" /\ Height >= 3
    /\ \E j \in 1..(Len(last.calls) - 1) :
          last.calls[j].split /\ ~last.calls[j + 1].leaf

\* The entries stored in the subtree of a node, as a bag of Entry records.
RECURSIVE SubtreeEntries(_)
RECURSIVE ChildrenEntries(_, _)
ChildrenEntries(node, i) ==
    IF i > node.n THEN EmptyBag
    ELSE (IF Readable(node.child, i)
          THEN SubtreeEntries(unwrap(Get(node.child, i))) ELSE EmptyBag)
         (+) ChildrenEntries(node, i + 1)
RECURSIVE OwnEntries(_, _)
OwnEntries(node, i) ==
    IF i >= node.n THEN EmptyBag
    ELSE (IF Readable(node.keys, i)
          THEN SetToBag({unwrap(Get(node.keys, i))}) ELSE EmptyBag)
         (+) OwnEntries(node, i + 1)
SubtreeEntries(node) ==
    OwnEntries(node, 0) (+) (IF node.leaf THEN EmptyBag ELSE ChildrenEntries(node, 0))

\* What C14 says of the two halves: y (before) against y1 and z (after).
SplitHalves(deg, y, y1, z) ==
    /\ y1.n = deg - 1 /\ z.n = deg - 1 /\ z.leaf = y.leaf /\ y1.leaf = y.leaf
    /\ \A i \in 0..(deg - 2) :
          /\ is_some(Get(y.keys, i)) /\ Get(y1.keys, i) = Get(y.keys, i)
          /\ is_some(Get(y.keys, i + deg)) /\ Get(z.keys, i) = Get(y.keys, i + deg)
    /\ ~y.leaf => \A i \in 0..(deg - 1) :
          /\ is_some(Get(y.child, i + deg))
          /\ Get(z.child, i) = Get(y.child, i + deg)
          /\ Get(y1.child, i) = Get(y.child, i)
\* What C14 says of the parent: p before, q after the split at pos.
SplitFrame(p, q, pos, y) ==
    /\ q.n = p.n + 1 /\ q.leaf = p.leaf
    /\ is_some(Get(y.keys, p.t - 1)) /\ Get(q.keys, pos) = Get(y.keys, p.t - 1)
    /\ \A i \in 0..(p.n - 1) :
          Get(q.keys, IF i < pos THEN i ELSE i + 1) = Get(p.keys, i)
    /\ \A i \in 0..p.n :
          i # pos => Get(q.child, IF i < pos THEN i ELSE i + 1) = Get(p.child, i)
    /\ SubtreeEntries(q) = SubtreeEntries(p)
SplitResult(p, pos, y, r) ==
    /\ ~r.panic
    /\ Readable(r.self.child, pos) /\ Readable(r.self.child, pos + 1)
    /\ SplitHalves(p.t, y, unwrap(Get(r.self.child, pos)),
                   unwrap(Get(r.self.child, pos + 1)))
    /\ SplitFrame(p, r.self, pos, y)
\* split_nodes(pos, pos) on p has the effect C14 states.
SplitEffect(p, pos) ==
    SplitResult(p, pos, unwrap(Get(p.child, pos)), split_nodes(p, pos, pos))

\* The new root that BTree::insert puts above a full root before it splits it.
RootParent == [Node_new(t, FALSE) EXCEPT !.child = Put(@, 0, root)]

\* C14: Node::split_nodes(pos, pos) on a non-full parent whose child[pos] = y
\* holds 2t - 1 entries leaves y with its lower t - 1 entries, puts a new node z
\* of the same leaf-ness at child[pos + 1] with y's upper t - 1 entries (and
\* upper t children), puts y's median at keys[pos], adds one to the parent's n,
\* keeps the parent's other entries and children in order and keeps the bag of
\* entries of the parent's subtree.  Stated of every split an insert makes: the
\* splits inside insert_non_full and the split of a full root.
C14_SplitEffect ==
    /\ \A j \in 1..Len(last.calls) :
          last.calls[j].split =>
              SplitEffect(unwrap(last.calls[j].entry), last.calls[j].i + 1)
    /\ (status = "ok" /\ is_some(root) /\ unwrap(root).n = 2 * t - 1) =>
          SplitEffect(RootParent, 0)

\* C14 witness: the last insert split an internal child that was not the last
\* child of its parent, a full child of a non-full parent.
C14_Witness ==
    \E j \in 1..Len(last.calls) :
        /\ last.calls[j].split
        /\ last.calls[j].i + 1 < last.calls[j].n
        /\ last.calls[j].n < 2 * t - 1
        /\ ~unwrap(Get(unwrap(last.calls[j].entry).child, last.calls[j].i + 1)).leaf
        /\ unwrap(Get(unwrap(last.calls[j].entry).child, last.calls[j].i + 1)).n = 2 * t - 1

\* The entries in slots [0, n) of a node, as a set.
OwnEntrySet(nd) == {Get(nd.keys, i) : i \in 0..(nd.n - 1)}

\* C15, one completed insert on a non-empty tree.  If the root held 2t - 1
\* entries the height grows by one and the new root is internal with one entry
\* and two children, child 0 being the old root (same leaf-ness, same height,
\* its lower t - 1 entries still in it); if not, the height stays and the root
\* is the old root (same leaf-ness, its entries still in it).
C15_Step ==
    (status = "ok" /\ status' = "ok" /\ is_some(root)) =>
        /\ is_some(root')
        /\ IF unwrap(root).n = 2 * t - 1
           THEN /\ Height' = Height + 1
                /\ unwrap(root').n = 1 /\ ~unwrap(root').leaf
                /\ NumChildren(unwrap(root')) = 2
                /\ Readable(unwrap(root').child, 0)
                /\ unwrap(Get(unwrap(root').child, 0)).leaf = unwrap(root).leaf
                /\ NodeHeight(unwrap(Get(unwrap(root').child, 0))) = Height
                /\ {Get(unwrap(root).keys, i) : i \in 0..(t - 2)}
                      \subseteq OwnEntrySet(unwrap(Get(unwrap(root').child, 0)))
           ELSE /\ Height' = Height
                /\ unwrap(root').leaf = unwrap(root).leaf
                /\ OwnEntrySet(unwrap(root)) \subseteq OwnEntrySet(unwrap(root'))

\* C15: an insert on a non-empty tree increases the height, by exactly one, if
\* and only if the root held 2t - 1 entries when it started (the old root is
\* then child 0 of a new internal root with one entry and two children); every
\* other insert leaves the height and the root in place; the height never
\* decreases.  Stated of the inserts that complete.
C15_HeightByRootSplit ==
    [][C15_Step /\ (status' = "ok" => Height' >= Height)]_vars

\* C15 witness: the last insert split a full internal root: the tree has three
\* levels or more, a one-entry root, and the insert called insert_non_full
\* first on a child of the new root, one call for each level below the root.
C15_Witness ==
    /\ status = "ok" /\ last.op = "insert" /\ Height >= 3
    /\ unwrap(root).n = 1 /\ Len(last.calls) = Height - 1

\* C16: every call of Node::insert_non_full made during a BTree::insert, the
\* call from insert and every recursive call, the calls of an insert that later
\* panics included, is on a node with 1 <= n < 2t - 1 at entry.
C16_InsertNonFullEntry ==
    last.op = "insert" =>
        \A j \in 1..Len(last.calls) :
            1 <= last.calls[j].n /\ last.calls[j].n < 2 * t - 1

\* C16 witness: an insert that called insert_non_full on three levels, first
\* on a child of a root it had just split, and split a full child on the way.
C16_Witness ==
    /\ last.op = "insert" /\ Len(last.calls) >= 3
    /\ \E j \in 1..Len(last.calls) : last.calls[j].split
    /\ is_some(root) /\ Len(last.calls) = Height - 1

\* C17: after any sequence of inserts, in every node the key slots [0, n) are
\* occupied and the key slots [n, 2t - 1) are empty; in every internal node the
\* child slots [0, n + 1) are occupied and the other child slots are empty; in
\* every leaf all child slots are empty.
C17_SlotsWellFormed ==
    (status = "ok" /\ NumInserted >= 1) =>
        \A nd \in Nodes :
            /\ Len(nd.keys) = 2 * t - 1 /\ Len(nd.child) = 2 * t
            /\ \A i \in 0..(2 * t - 2) : is_some(Get(nd.keys, i)) <=> i < nd.n
            /\ \A i \in 0..(2 * t - 1) :
                  is_some(Get(nd.child, i)) <=> (~nd.leaf /\ i < nd.n + 1)

\* C17 witness: a three-level tree whose last insert split an internal child in
\* the middle of its parent, so that keys and children were taken out of one
\* node, moved into a new one and shifted in a third.
C17_Witness ==
    /\ status = "ok" /\ Height >= 3
    /\ \E j \in 1..(Len(last.calls) - 1) :
          /\ last.calls[j].split /\ ~last.calls[j + 1].leaf
          /\ last.calls[j].i + 1 < last.calls[j].n

\* The node-major order of the subtree of a node: the node's own entries in
\* slot order, then the node-major order of child[0], ..., child[n] in turn.
RECURSIVE NodeMajor(_)
RECURSIVE NodeMajorChildren(_, _)
NodeMajorChildren(node, i) ==
    IF i > node.n THEN <<>>
    ELSE NodeMajor(unwrap(Get(node.child, i))) \o NodeMajorChildren(node, i + 1)
NodeMajor(node) ==
    [i \in 1..node.n |-> unwrap(Get(node.keys, i - 1))]
    \o (IF node.leaf THEN <<>> ELSE NodeMajorChildren(node, 0))

\* A sequence of entries whose keys never go down.
AscendingKeys(s) == \A i \in 1..(Len(s) - 1) : get_key(s[i]) <= get_key(s[i + 1])

\* C18: BTree::traverse yields the node-major order; for every tree of more
\* than one level reached by inserts of distinct keys that sequence is not in
\* ascending key order, and for a single-leaf tree it is.
C18_TraverseNodeMajor ==
    (status = "ok" /\ is_some(root)) =>
        /\ BTree_traverse(root) =
              [panic |-> FALSE, out |-> Some(NodeMajor(unwrap(root)))]
        /\ (DistinctKeys /\ Height >= 2) =>
              ~AscendingKeys(unwrap(BTree_traverse(root).out))
        /\ Height = 1 => AscendingKeys(unwrap(BTree_traverse(root).out))

\* C18 witness: a two-level tree of distinct keys with three children whose
\* traversal starts with the root's entries and then goes down in key.
C18_Witness ==
    /\ status = "ok" /\ DistinctKeys /\ Height = 2 /\ unwrap(root).n >= 2
    /\ \E i \in 1..(Len(unwrap(BTree_traverse(root).out)) - 1) :
          /\ i = unwrap(root).n
          /\ get_key(unwrap(BTree_traverse(root).out)[i])
                > get_key(unwrap(BTree_traverse(root).out)[i + 1])

\* The <<key, value>> pairs of the entries that BTree::traverse returns for a
\* root (of a tree that has one).
StoredPairs(rt) ==
    LET s == unwrap(BTree_traverse(rt).out)
    IN  {<<s[i].key, s[i].value>> : i \in 1..Len(s)}
StoredCount(rt) == Len(unwrap(BTree_traverse(rt).out))

\* C19, the state after M >= 1 completed inserts, duplicate keys allowed:
\* traverse() returns M entries, and they are the pairs inserted (every insert
\* carries a value of its own, so the pairs are pairwise different).
C19_State ==
    (status = "ok" /\ NumInserted >= 1) =>
        /\ BTree_traverse(root).panic = FALSE
        /\ StoredCount(root) = NumInserted
        /\ StoredPairs(root) = BagToSet(inserted)
        /\ Cardinality(StoredPairs(root)) = NumInserted
\* C19, one completed insert on a non-empty tree: one stored entry more, and
\* every pair stored before is stored after.
C19_Step ==
    (status = "ok" /\ status' = "ok" /\ is_some(root)) =>
        /\ StoredCount(root') = StoredCount(root) + 1
        /\ StoredPairs(root) \subseteq StoredPairs(root')

\* C19: insert never overwrites or drops an entry, also for duplicate keys:
\* every completed insert increases the number of stored entries by exactly
\* one, after M completed inserts traverse() has length M, and every (key,
\* value) pair stored before an insert is still stored, unchanged, after it.
C19_InsertKeepsEntries == [](C19_State) /\ [][C19_Step]_vars

\* C19 witness: the last insert put a key that was already stored into a tree
\* of two levels, and both entries with that key are stored.
C19_Witness ==
    /\ status = "ok" /\ last.op = "insert" /\ Height >= 2
    /\ \E p, q \in BagToSet(inserted) :
          /\ p # q /\ p[1] = last.arg /\ q[1] = last.arg
          /\ p \in StoredPairs(root) /\ q \in StoredPairs(root)
=============================================================================
